---- MODULE Spec2Model ----
(***************************************************************************)
(* A model of qoc/standard/functions/expm.py and convenience.py.           *)
(*                                                                         *)
(* Numbers.  A complex128 entry is a Gaussian integer <<re, im>>; all the  *)
(* inputs drawn below have integer parts, and +, -, * are exact on them.   *)
(* A 2-D ndarray is a sequence of rows, a 1-D ndarray a sequence of        *)
(* entries.  Python indices 0..n-1 are the indices 1..n here.              *)
(***************************************************************************)
EXTENDS Integers, Sequences, FiniteSets, TLC

VARIABLES
    \* ---- expm.py: one traced call of a primitive and its backward closures
    pc,                   \* "init" before the forward call, "traced" after it
    primitive,            \* "expm" or "expm_fastgrad"
    matrix,               \* forward input 0
    control_matrix_list,  \* forward input 1 (<<>> for expm, which has none)
    exp_matrix,           \* the forward result, captured by the closures
    matrix_size,          \* matrix.shape[0], captured by the closures
    argnum,               \* forward input whose backward rule was invoked last
    rule,                 \* name of the vjp maker whose closure was invoked last
    dfinal_dexpm,         \* the cotangent handed to that invocation
    dfinal_dmatrix,       \* local of _expm_vjp_
    dexpm_dcontrols,      \* local of _expm_fastgrad_vjp_
    ret,                  \* what that invocation returned
    ncalls,               \* closure invocations so far
    \* ---- convenience.py: one call of a kernel function
    kfun,                 \* the function called ("idle" before the call)
    kargs,                \* its arguments
    kout,                 \* its result (<<>> when it raised)
    kraised               \* the exception it raised, "none" when it returned

vars == <<pc, primitive, matrix, control_matrix_list, exp_matrix, matrix_size,
          argnum, rule, dfinal_dexpm, dfinal_dmatrix, dexpm_dcontrols, ret,
          ncalls, kfun, kargs, kout, kraised>>

expm_vars == <<pc, primitive, matrix, control_matrix_list, exp_matrix,
               matrix_size, argnum, rule, dfinal_dexpm, dfinal_dmatrix,
               dexpm_dcontrols, ret, ncalls>>

kernel_vars == <<kfun, kargs, kout, kraised>>

(***************************************************************************)
(* Bounds.                                                                 *)
(***************************************************************************)
\* matrices are N x N (the matrices split into columns r x c, r, c in 0..N)
N == 2
\* the control matrix list holds 0..MaxControls matrices
MaxControls == 2
\* a closure is invoked at most MaxCalls times after one forward call
MaxCalls == 2

(***************************************************************************)
(* complex128 arithmetic                                                   *)
(***************************************************************************)
CZero == <<0, 0>>
COne == <<1, 0>>
CI == <<0, 1>>
CMinusOne == <<-1, 0>>
CMinusI == <<0, -1>>

CAdd(x, y) == <<x[1] + y[1], x[2] + y[2]>>
CSub(x, y) == <<x[1] - y[1], x[2] - y[2]>>
CMul(x, y) == <<x[1] * y[1] - x[2] * y[2], x[1] * y[2] + x[2] * y[1]>>
CNeg(x) == <<0 - x[1], 0 - x[2]>>
CConj(x) == <<x[1], 0 - x[2]>>

(***************************************************************************)
(* numpy array operations                                                  *)
(***************************************************************************)
\* np.sum of a 1-D array
RECURSIVE np_sum(_)
np_sum(v) == IF v = <<>> THEN CZero ELSE CAdd(Head(v), np_sum(Tail(v)))

\* np.multiply of two 1-D arrays: elementwise, no conjugation
np_multiply(u, v) == [k \in 1..Len(u) |-> CMul(u[k], v[k])]

\* np.dot of two 1-D arrays: sum of elementwise products, no conjugation
np_dot(u, v) == np_sum(np_multiply(u, v))

\* np.zeros((r, c), dtype=np.complex128)
np_zeros(r, c) == [i \in 1..r |-> [j \in 1..c |-> CZero]]

\* A 2-D array held as the sequence of its rows has at least one row, and
\* its second dimension is the length of its first row.  (An array that may
\* have no row is an Array2D, which keeps its shape: the rows alone do not
\* tell how many columns an array without rows has.)
NRows(A) == Len(A)
NCols(A) == Len(Head(A))

\* A[:, j]
Column(A, j) == [i \in 1..NRows(A) |-> A[i][j]]

\* A.T, A with at least one row
Transpose(A) == [j \in 1..NCols(A) |-> Column(A, j)]

\* np.matmul of two 2-D arrays, each with at least one row
np_matmul(A, B) ==
    [i \in 1..NRows(A) |-> [j \in 1..NCols(B) |-> np_dot(A[i], Column(B, j))]]

\* elementwise A + B, A - B of equal shapes
MatAdd(A, B) == [i \in 1..NRows(A) |-> [j \in 1..NCols(A) |-> CAdd(A[i][j], B[i][j])]]
MatSub(A, B) == [i \in 1..NRows(A) |-> [j \in 1..NCols(A) |-> CSub(A[i][j], B[i][j])]]
MatNeg(A) == [i \in 1..NRows(A) |-> [j \in 1..NCols(A) |-> CNeg(A[i][j])]]
MatScale(s, A) == [i \in 1..NRows(A) |-> [j \in 1..NCols(A) |-> CMul(s, A[i][j])]]

Identity(n) == [i \in 1..n |-> [j \in 1..n |-> IF i = j THEN COne ELSE CZero]]

\* the unit direction E_ab scaled by s
Unit(n, a, b, s) ==
    [i \in 1..n |-> [j \in 1..n |-> IF i = a /\ j = b THEN s ELSE CZero]]

IsSquare(A, n) == NRows(A) = n /\ \A i \in 1..n : Len(A[i]) = n

(***************************************************************************)
(* Inputs of the traced call.                                              *)
(***************************************************************************)
\* the outer product u u^T of u = (1, i, 0, ..., 0): a dense matrix with
\* square zero
DenseNilpotent(n) ==
    LET u == [k \in 1..n |-> IF k = 1 THEN COne ELSE IF k = 2 THEN CI ELSE CZero]
    IN  [i \in 1..n |-> [j \in 1..n |-> CMul(u[i], u[j])]]

\* every entry distinct: entry (a, b) is a + b*i
Ramp(n) == [a \in 1..n |-> [b \in 1..n |-> <<a, b>>]]

\* Matrices to exponentiate: square zero (M.M = 0), so that exp(M) = I + M
\* with no rounding.  They do not commute with most unit directions.
ExponentInputs(n) ==
    { M \in ({np_zeros(n, n), DenseNilpotent(n)}
             \cup { Unit(n, a, b, s) : a \in 1..n, b \in 1..n, s \in {COne, CI} }) :
        np_matmul(M, M) = np_zeros(n, n) }

\* Control generators: the Pauli matrices when n = 2 (cyclic shift, its
\* antisymmetric imaginary version, and the alternating diagonal in general)
ControlX(n) == [a \in 1..n |-> [b \in 1..n |-> IF b = (a % n) + 1 THEN COne ELSE CZero]]
ControlY(n) ==
    [a \in 1..n |-> [b \in 1..n |->
        IF b = (a % n) + 1 THEN (IF a < b THEN CMinusI ELSE CI) ELSE CZero]]
ControlZ(n) ==
    [a \in 1..n |-> [b \in 1..n |->
        IF a = b THEN (IF a % 2 = 1 THEN COne ELSE CMinusOne) ELSE CZero]]
ControlMatrices(n) == {ControlX(n), ControlY(n), ControlZ(n)}

RECURSIVE ListsUpTo(_, _)
ListsUpTo(S, k) ==
    IF k = 0 THEN {<<>>}
    ELSE LET shorter == ListsUpTo(S, k - 1)
         IN  shorter \cup { Append(l, x) : l \in {m \in shorter : Len(m) = k - 1}, x \in S }

ControlLists(n) == ListsUpTo(ControlMatrices(n), MaxControls)

\* Cotangents the engine hands to a backward closure
Cotangents(n) ==
    { Unit(n, a, b, COne) : a \in 1..n, b \in 1..n } \cup {Ramp(n)}

(***************************************************************************)
(* expm.py                                                                 *)
(***************************************************************************)
\* la.expm(matrix) (lines 21 and 38) on a matrix of square zero: the series
\* I + M + M.M/2 + ... ends after M
la_expm(m) == MatAdd(Identity(NRows(m)), m)

\* autograd_defvjp(expm, _expm_vjp): one vjp maker per forward input, in
\* input order
vjpmakers_expm == <<"_expm_vjp">>

vjpmakers_swapped == <<"_expm_fastgrad_vjp_dummy", "_expm_fastgrad_vjp">>
\* autograd_defvjp(expm_fastgrad, _expm_fastgrad_vjp, _expm_fastgrad_vjp_dummy)
vjpmakers_expm_fastgrad == <<"_expm_fastgrad_vjp", "_expm_fastgrad_vjp_dummy">>

defvjp_table(p) ==
    IF p = "expm" THEN vjpmakers_expm ELSE vjpmakers_expm_fastgrad

\* return values: an ndarray, or the Python float of the dummy rule
NdArray(A) == [tag |-> "ndarray", v |-> A]
Float(x) == [tag |-> "float", v |-> x]
NoValue == [tag |-> "none", v |-> 0]

\* ---- _expm_vjp_ (lines 99-111)
dexpm_dmij_colj(e, j) == Column(e, j)
\* dexpm_dmij_rowi = exp_matrix[j,:]
dexpm_dmij_rowi(e, j) == e[j]

\* np.sum(np.multiply(dfinal_dexpm[i, :], dexpm_dmij_rowi))
vjp_entry(g, e, i, j) == np_sum(np_multiply(g[i], dexpm_dmij_rowi(e, j)))

\* for j in range(matrix_size): dfinal_dmatrix[i, j] = ...
RECURSIVE vjp_for_j(_, _, _, _, _, _)
vjp_for_j(acc, i, j, n, g, e) ==
    IF j > n THEN acc
    ELSE vjp_for_j([acc EXCEPT ![i][j] = vjp_entry(g, e, i, j)], i, j + 1, n, g, e)

\* for i in range(matrix_size): ...
RECURSIVE vjp_for_i(_, _, _, _, _)
vjp_for_i(acc, i, n, g, e) ==
    IF i > n THEN acc
    ELSE vjp_for_i(vjp_for_j(acc, i, 1, n, g, e), i + 1, n, g, e)

expm_vjp_closure(e, n, g) == vjp_for_i(np_zeros(n, n), 1, n, g, e)

\* ---- _expm_fastgrad_vjp_ (lines 49-56)
stale_dexpm_dcontrols(n) ==
    IF dexpm_dcontrols = <<>> THEN np_zeros(n, n) ELSE dexpm_dcontrols
\* dexpm_dcontrols = np.zeros((matrix_size, matrix_size), dtype=np.complex128)
fresh_dexpm_dcontrols(n) == np_zeros(n, n)

control_term_swapped(control_matrix, e) == np_matmul(e, control_matrix)
\* np.matmul(control_matrix, exp_matrix)
control_term(control_matrix, e) == np_matmul(control_matrix, e)

\* for control_matrix in control_matrix_list: dexpm_dcontrols += ...
RECURSIVE for_control_matrix(_, _, _)
for_control_matrix(acc, controls, e) ==
    IF controls = <<>> THEN acc
    ELSE for_control_matrix(MatAdd(acc, control_term(Head(controls), e)),
                            Tail(controls), e)

(***************************************************************************)
(* The traced call: Init is the graph before the forward call.             *)
(***************************************************************************)
KernelIdle == kfun = "idle" /\ kargs = <<>> /\ kout = <<>> /\ kraised = "none"

Init ==
    /\ pc = "init"
    /\ primitive \in {"expm", "expm_fastgrad"}
    /\ matrix \in ExponentInputs(N)
    /\ control_matrix_list \in
           (IF primitive = "expm" THEN {<<>>} ELSE ControlLists(N))
    /\ exp_matrix = <<>>
    /\ matrix_size = 0
    /\ argnum = 0
    /\ rule = "none"
    /\ dfinal_dexpm = <<>>
    /\ dfinal_dmatrix = <<>>
    /\ dexpm_dcontrols = <<>>
    /\ ret = NoValue
    /\ ncalls = 0
    /\ KernelIdle

\* expm(matrix), lines 10-23; the engine builds the backward closure of its
\* input as it records the call (_expm_vjp, line 97)
Forward_expm ==
    /\ pc = "init"
    /\ primitive = "expm"
    /\ exp_matrix' = la_expm(matrix)
    /\ matrix_size' = NRows(matrix)
    /\ pc' = "traced"
    /\ UNCHANGED <<primitive, matrix, control_matrix_list, argnum, rule,
                   dfinal_dexpm, dfinal_dmatrix, dexpm_dcontrols, ret, ncalls>>
    /\ UNCHANGED kernel_vars

\* expm_fastgrad(matrix, control_matrix_list), lines 25-40, and the closures
\* of its two inputs (_expm_fastgrad_vjp, line 48)
Forward_expm_fastgrad ==
    /\ pc = "init"
    /\ primitive = "expm_fastgrad"
    /\ exp_matrix' = la_expm(matrix)
    /\ matrix_size' = NRows(matrix)
    /\ pc' = "traced"
    /\ UNCHANGED <<primitive, matrix, control_matrix_list, argnum, rule,
                   dfinal_dexpm, dfinal_dmatrix, dexpm_dcontrols, ret, ncalls>>
    /\ UNCHANGED kernel_vars

\* the engine may invoke the closure of forward input a with cotangent g
CanInvoke(a, maker) ==
    /\ pc = "traced"
    /\ ncalls < MaxCalls
    /\ a + 1 \in DOMAIN defvjp_table(primitive)
    /\ defvjp_table(primitive)[a + 1] = maker

\* _expm_vjp_(dfinal_dexpm), lines 99-111
Invoke_expm_vjp(a, g) ==
    /\ CanInvoke(a, "_expm_vjp")
    /\ argnum' = a
    /\ rule' = "_expm_vjp"
    /\ dfinal_dexpm' = g
    /\ dfinal_dmatrix' = expm_vjp_closure(exp_matrix, matrix_size, g)
    /\ ret' = NdArray(dfinal_dmatrix')
    /\ ncalls' = ncalls + 1
    /\ UNCHANGED <<pc, primitive, matrix, control_matrix_list, exp_matrix,
                   matrix_size, dexpm_dcontrols>>
    /\ UNCHANGED kernel_vars

\* _expm_fastgrad_vjp_(dfinal_dexpm), lines 49-56
Invoke_expm_fastgrad_vjp(a, g) ==
    /\ CanInvoke(a, "_expm_fastgrad_vjp")
    /\ argnum' = a
    /\ rule' = "_expm_fastgrad_vjp"
    /\ dfinal_dexpm' = g
    /\ dexpm_dcontrols' =
           for_control_matrix(fresh_dexpm_dcontrols(matrix_size),
                              control_matrix_list, exp_matrix)
    /\ ret' = NdArray(np_matmul(g, dexpm_dcontrols'))
    /\ ncalls' = ncalls + 1
    /\ UNCHANGED <<pc, primitive, matrix, control_matrix_list, exp_matrix,
                   matrix_size, dfinal_dmatrix>>
    /\ UNCHANGED kernel_vars

\* dummy(g), lines 62-63
Invoke_dummy(a, g) ==
    /\ CanInvoke(a, "_expm_fastgrad_vjp_dummy")
    /\ argnum' = a
    /\ rule' = "_expm_fastgrad_vjp_dummy"
    /\ dfinal_dexpm' = g
    /\ ret' = Float(0)
    /\ ncalls' = ncalls + 1
    /\ UNCHANGED <<pc, primitive, matrix, control_matrix_list, exp_matrix,
                   matrix_size, dfinal_dmatrix, dexpm_dcontrols>>
    /\ UNCHANGED kernel_vars

Next ==
    \/ Forward_expm
    \/ Forward_expm_fastgrad
    \/ \E a \in 0..1, g \in Cotangents(N) : Invoke_expm_vjp(a, g)
    \/ \E a \in 0..1, g \in Cotangents(N) : Invoke_expm_fastgrad_vjp(a, g)
    \/ \E a \in 0..1, g \in Cotangents(N) : Invoke_dummy(a, g)

Spec == Init /\ [][Next]_vars

(***************************************************************************)
(* Claims about expm.py, checked under Spec.                               *)
(***************************************************************************)
\* the sum of a sequence of complex numbers
RECURSIVE Sigma(_)
Sigma(q) == IF Len(q) = 0 THEN CZero ELSE CAdd(Sigma(SubSeq(q, 1, Len(q) - 1)), q[Len(q)])

\* sum over all entries of the elementwise product of A and B
HadamardSum(A, B) ==
    Sigma([i \in 1..NRows(A) |-> Sigma([j \in 1..NCols(A) |-> CMul(A[i][j], B[i][j])])])

AbsSq(z) == z[1] * z[1] + z[2] * z[2]

IsZeroMatrix(A) == \A i \in 1..NRows(A) : \A j \in 1..NCols(A) : A[i][j] = CZero

Returned(maker) == ncalls > 0 /\ rule = maker

\* C1: for M = H0 + u1*H1 + u2*H2 the gradient with respect to u1 from the
\* fast-path rule, sum(_expm_fastgrad_vjp(E, M, [H1, H2])(G) * H1), equals
\* the one from the generic rule, sum(_expm_vjp(E, M)(G) * H1).  Every
\* matrix M is H0 + 0*H1 + 0*H2 with H0 = M, so the claim covers every
\* fast-path invocation with two control matrices.
C1_FastPathMatchesGeneric ==
    (Returned("_expm_fastgrad_vjp") /\ Len(control_matrix_list) = 2) =>
        HadamardSum(ret.v, control_matrix_list[1])
          = HadamardSum(expm_vjp_closure(exp_matrix, matrix_size, dfinal_dexpm),
                        control_matrix_list[1])

\* Six times the derivative of exp(M + eps*E_ij) at eps = 0 for M.M = 0:
\* the series gives E_ij + (M.E_ij + E_ij.M)/2 + (M.E_ij.M)/6, every other
\* term holding a factor M.M.
Frechet6(m, i, j) ==
    LET n == NRows(m)
        Eij == Unit(n, i, j, COne)
        mE == np_matmul(m, Eij)
        Em == np_matmul(Eij, m)
    IN  MatAdd(MatAdd(MatScale(<<6, 0>>, Eij), MatScale(<<3, 0>>, MatAdd(mE, Em))),
               np_matmul(mE, m))

\* |approx - exact| <= 1e-3 * |exact|
WithinRelativeTolerance(approx, exact) ==
    AbsSq(CSub(approx, exact)) * 1000000 <= AbsSq(exact)

\* C2: every entry (i,j) of _expm_vjp(E, M)(G) matches the derivative of
\* sum(G * exp(M + eps*E_ij)) at eps = 0 to within 1e-3 relative error,
\* also for M that does not commute with E_ij.
C2_GenericRuleMatchesDerivative ==
    Returned("_expm_vjp") =>
        \A i \in 1..matrix_size : \A j \in 1..matrix_size :
            WithinRelativeTolerance(CMul(<<6, 0>>, ret.v[i][j]),
                                    HadamardSum(dfinal_dexpm, Frechet6(matrix, i, j)))

\* C3: _expm_vjp(E, M)(G) has the shape of M and its entry (i,j) is the
\* sum over l of G[i,l]*E[j,l], unconjugated, for every i and j.
C3_GenericRuleEntries ==
    Returned("_expm_vjp") =>
        /\ ret.tag = "ndarray"
        /\ IsSquare(ret.v, NRows(matrix))
        /\ \A i \in 1..NRows(matrix) : \A j \in 1..NRows(matrix) :
               ret.v[i][j] = Sigma([l \in 1..NRows(matrix) |->
                                       CMul(dfinal_dexpm[i][l], exp_matrix[j][l])])

C3_Witness ==
    /\ Returned("_expm_vjp")
    /\ dfinal_dexpm = Ramp(N)
    /\ exp_matrix # Transpose(exp_matrix)
    /\ \E i \in 1..N : \E j \in 1..N : ret.v[i][j][2] # 0

\* C4: _expm_fastgrad_vjp(E, M, [H_1..H_k])(G) is G.D with D the sum over
\* the control matrices of H_k.E, each matrix of the list counted once; an
\* empty list gives the zero matrix.
C4_FastRuleProduct ==
    Returned("_expm_fastgrad_vjp") =>
        /\ ret.tag = "ndarray"
        /\ IsSquare(ret.v, NRows(matrix))
        /\ \A i \in 1..NRows(matrix) : \A j \in 1..NRows(matrix) :
               ret.v[i][j] =
                   Sigma([k \in 1..Len(control_matrix_list) |->
                       Sigma([a \in 1..NRows(matrix) |->
                           Sigma([b \in 1..NRows(matrix) |->
                               CMul(dfinal_dexpm[i][a],
                                    CMul(control_matrix_list[k][a][b],
                                         exp_matrix[b][j]))])])])
        /\ (control_matrix_list = <<>> => IsZeroMatrix(ret.v))

C4_Witness ==
    /\ Returned("_expm_fastgrad_vjp")
    /\ Len(control_matrix_list) >= 2
    /\ control_matrix_list[1] # control_matrix_list[2]
    /\ exp_matrix # Identity(N)
    /\ ~ IsZeroMatrix(ret.v)

\* C5: the rule of the control-matrix-list input (argument 1) of
\* expm_fastgrad is the dummy and returns exactly 0 for every cotangent;
\* the rule of the matrix input (argument 0) is _expm_fastgrad_vjp.
C5_DummyGradient ==
    (ncalls > 0 /\ primitive = "expm_fastgrad") =>
        /\ argnum = 1 => (rule = "_expm_fastgrad_vjp_dummy" /\ ret.tag = "float" /\ ret.v = 0)
        /\ argnum = 0 => (rule = "_expm_fastgrad_vjp" /\ ret.tag = "ndarray")

C5_Witness ==
    /\ primitive = "expm_fastgrad"
    /\ ncalls > 0
    /\ argnum = 1
    /\ dfinal_dexpm = Ramp(N)
    /\ control_matrix_list # <<>>

\* what a first invocation returns: a function of E, the controls and G
FirstInvocation(maker, e, controls, g) ==
    IF maker = "_expm_vjp"
    THEN NdArray([i \in 1..NRows(e) |-> [j \in 1..NRows(e) |->
             Sigma([l \in 1..NRows(e) |-> CMul(g[i][l], e[j][l])])]])
    ELSE IF maker = "_expm_fastgrad_vjp"
    THEN NdArray(np_matmul(g, np_matmul(
             [a \in 1..NRows(e) |-> [b \in 1..NRows(e) |->
                 Sigma([k \in 1..Len(controls) |-> controls[k][a][b]])]], e)))
    ELSE Float(0)

\* C10: every invocation of a backward closure returns what a first
\* invocation with the same cotangent returns (nothing carries over from
\* an earlier invocation), and leaves E, M and the control list unchanged.
C10_ClosuresArePure ==
    [][ncalls' = ncalls + 1 =>
            /\ ret' = FirstInvocation(rule', exp_matrix, control_matrix_list, dfinal_dexpm')
            /\ exp_matrix' = exp_matrix
            /\ matrix' = matrix
            /\ control_matrix_list' = control_matrix_list]_vars

C10_Witness ==
    /\ ncalls >= 2
    /\ rule = "_expm_fastgrad_vjp"
    /\ ~ IsZeroMatrix(dexpm_dcontrols)
    /\ ~ IsZeroMatrix(ret.v)

(***************************************************************************)
(* convenience.py                                                          *)
(***************************************************************************)
anticommutator(a, b) == MatAdd(np_matmul(a, b), np_matmul(b, a))
\* commutator_ = anp.matmul(a, b) - anp.matmul(b, a)
commutator(a, b) == MatSub(np_matmul(a, b), np_matmul(b, a))

\* np.zeros_like(x) of a 1-D array
np_zeros_like(x) == [k \in 1..Len(x) |-> CZero]

VecAdd(u, v) == [k \in 1..Len(u) |-> CAdd(u[k], v[k])]
VecScale(s, v) == [k \in 1..Len(v) |-> CMul(s, v[k])]

\* for i in range(basis.shape[0]): y = y + anp.dot(x, basis[i]) * basis[i]
RECURSIVE project_for_i(_, _, _, _)
project_for_i(y, i, x, basis) ==
    IF i > NRows(basis) THEN y
    ELSE project_for_i(VecAdd(y, VecScale(np_dot(x, basis[i]), basis[i])),
                       i + 1, x, basis)

project(x, basis) == project_for_i(np_zeros_like(x), 1, x, basis)

\* A 2-D array handed to the column functions keeps its shape beside its
\* rows: an array of no rows still has c columns.
Array2D(r, c, rows) == [shape |-> <<r, c>>, data |-> rows]

\* how a call ends: with a value, or with an exception
Returns(v) == [raised |-> "none", value |-> v]
Raises(e) == [raised |-> e, value |-> <<>>]

matrix_column_reversed(m, i) ==
    [k \in 1..m.shape[1] |-> m.data[k][m.shape[2] + 1 - i]]
\* matrix[:, i]: a 1-D array of length matrix.shape[0]
matrix_column(m, i) == [k \in 1..m.shape[1] |-> m.data[k][i]]

\* anp.vstack of a 1-D array: its entries, each made 1 x 1, concatenated
\* along axis 0 into an r x 1 column; with no entry there is nothing to
\* concatenate and it raises ValueError
anp_vstack(v) ==
    IF v = <<>> THEN Raises("ValueError")
    ELSE Returns([k \in 1..Len(v) |-> <<v[k]>>])

\* anp.stack of a list of equal-shaped arrays; an empty list raises
\* ValueError
anp_stack(arrays) ==
    IF arrays = <<>> THEN Raises("ValueError") ELSE Returns(arrays)

\* anp.stack([anp.vstack(matrix[:, i]) for i in range(matrix.shape[1])]):
\* an exception of anp.vstack leaves the comprehension and the call
matrix_to_column_vector_list(m) ==
    LET columns == [i \in 1..m.shape[2] |-> anp_vstack(matrix_column(m, i))]
    IN  IF \E i \in 1..m.shape[2] : columns[i].raised # "none"
        THEN Raises("ValueError")
        ELSE anp_stack([i \in 1..m.shape[2] |-> columns[i].value])

\* row k of anp.hstack: the rows k of the arrays, joined in order
RECURSIVE JoinRows(_, _)
JoinRows(arrays, k) ==
    IF arrays = <<>> THEN <<>> ELSE Head(arrays)[k] \o JoinRows(Tail(arrays), k)

\* anp.hstack of a non-empty sequence of 2-D arrays of equal height:
\* concatenation along axis 1
anp_hstack(arrays) ==
    Returns(Array2D(NRows(arrays[1]), Len(JoinRows(arrays, 1)),
                    [k \in 1..NRows(arrays[1]) |-> JoinRows(arrays, k)]))

column_vector_list_to_matrix(column_vector_list) == anp_hstack(column_vector_list)

(***************************************************************************)
(* Inputs of the kernel calls.                                             *)
(***************************************************************************)
UnitRect(r, c, a, b, s) ==
    [i \in 1..r |-> [j \in 1..c |-> IF i = a /\ j = b THEN s ELSE CZero]]

RampRect(r, c) == [a \in 1..r |-> [b \in 1..c |-> <<a, b>>]]

\* r x c matrices: zero, one nonzero entry out of 1, i, -1, or all distinct
RectMatrices(r, c) ==
    {np_zeros(r, c), RampRect(r, c)}
    \cup { UnitRect(r, c, a, b, s) : a \in 1..r, b \in 1..c, s \in {COne, CI, CMinusOne} }

\* the same with their shape; of shape (0, c) there is one array, without
\* entries
ShapedMatrices(r, c) ==
    IF r = 0 THEN {Array2D(0, c, <<>>)}
    ELSE {Array2D(r, c, rows) : rows \in RectMatrices(r, c)}

SquareMatrices(n) ==
    RectMatrices(n, n) \cup ControlMatrices(n) \cup {Identity(n), DenseNilpotent(n)}

\* 1-D arrays of length n with entries 0, 1, i, -1
RECURSIVE Vectors(_)
Vectors(n) ==
    IF n = 0 THEN {<<>>}
    ELSE { Append(v, s) : v \in Vectors(n - 1), s \in {CZero, COne, CI, CMinusOne} }

\* basis rows: the unit vectors, real or imaginary, and one row of norm
\* sqrt(n) that no orthonormal basis holds
BasisRows(n) ==
    { [k \in 1..n |-> IF k = a THEN s ELSE CZero] : a \in 1..n, s \in {COne, CI} }
    \cup { [k \in 1..n |-> COne] }

Bases(n) == ListsUpTo(BasisRows(n), n) \ {<<>>}

(***************************************************************************)
(* Real arithmetic for gram_schmidt.  A float is (p/q)*sqrt(d) with p, q   *)
(* coprime integers, q > 0 and d >= 1 squarefree: the rationals (d = 1),   *)
(* closed under the products, quotients and square roots the function      *)
(* takes.  Sums are taken of numbers with one radical d, which is all the  *)
(* function adds on the inputs drawn.                                      *)
(***************************************************************************)
Abs(a) == IF a < 0 THEN 0 - a ELSE a
Sign(a) == IF a < 0 THEN 0 - 1 ELSE IF a = 0 THEN 0 ELSE 1

RECURSIVE Gcd(_, _)
Gcd(a, b) == IF b = 0 THEN a ELSE Gcd(b, a % b)

\* the largest s whose square divides d, searched from the factor s up
RECURSIVE SquarePart(_, _)
SquarePart(d, s) ==
    IF s * s > d THEN 1
    ELSE IF d % (s * s) = 0 THEN s * SquarePart(d \div (s * s), s)
    ELSE SquarePart(d, s + 1)

RZero == [p |-> 0, q |-> 1, d |-> 1]
\* a sum of two different radicals: not a number of this form
NotRepresented == [p |-> 0, q |-> 0, d |-> 0]

\* (p/q)*sqrt(d) in lowest terms, q > 0, d >= 0
MkReal(p, q, d) ==
    IF p = 0 \/ d = 0 THEN RZero
    ELSE LET s == SquarePart(d, 2)
             g == Gcd(Abs(p * s), q)
         IN  [p |-> (Abs(p * s) \div g) * Sign(p), q |-> q \div g, d |-> d \div (s * s)]

RInt(k) == MkReal(k, 1, 1)
ROne == RInt(1)
RNeg(x) == [x EXCEPT !.p = 0 - x.p]
RMul(x, y) == MkReal(x.p * y.p, x.q * y.q, x.d * y.d)
RAdd(x, y) ==
    IF x.q = 0 \/ y.q = 0 THEN NotRepresented
    ELSE IF x.p = 0 THEN y
    ELSE IF y.p = 0 THEN x
    ELSE IF x.d = y.d THEN MkReal(x.p * y.q + y.p * x.q, x.q * y.q, x.d)
    ELSE NotRepresented
RSub(x, y) == RAdd(x, RNeg(y))
\* 1/x for x # 0
RInv(x) == MkReal(x.q * Sign(x.p), Abs(x.p) * x.d, x.d)
RDiv(x, y) == RMul(x, RInv(y))
\* sqrt(x) for a rational x >= 0
RSqrt(x) == MkReal(1, x.q, x.p * x.q)

RECURSIVE RSum(_)
RSum(v) == IF v = <<>> THEN RZero ELSE RAdd(Head(v), RSum(Tail(v)))

\* u.dot(v) of two 1-D real arrays
rdot(u, v) == RSum([k \in 1..Len(u) |-> RMul(u[k], v[k])])

\* A.dot(B) of two 2-D real arrays
rmatmul(A, B) ==
    [i \in 1..NRows(A) |-> [j \in 1..NCols(B) |-> rdot(A[i], Column(B, j))]]

\* np.diag of a 1-D array
np_diag(v) == [i \in 1..Len(v) |-> [j \in 1..Len(v) |-> IF i = j THEN v[i] ELSE RZero]]

\* np.linalg.norm(Y, axis=1)
linalg_norm_axis1(Y) == [m \in 1..NRows(Y) |-> RSqrt(rdot(Y[m], Y[m]))]

\* P.sum(0)
sum_axis0(P) == [k \in 1..NCols(P) |-> RSum(Column(P, k))]

gs_coefficients_undivided(xi, Y) == [m \in 1..NRows(Y) |-> rdot(xi, Y[m])]
\* X[i,:].dot(Y.T) / np.linalg.norm(Y, axis=1)**2
gs_coefficients(xi, Y) ==
    LET nrm == linalg_norm_axis1(Y)
    IN  [m \in 1..NRows(Y) |-> RDiv(rdot(xi, Y[m]), RMul(nrm[m], nrm[m]))]

\* proj = np.diag((...).flat).dot(Y)
gs_proj(xi, Y) == rmatmul(np_diag(gs_coefficients(xi, Y)), Y)

\* for i in range(1, X.shape[0]): Y = np.vstack((Y, X[i,:] - proj.sum(0)))
RECURSIVE gs_for_i(_, _, _)
gs_for_i(Y, i, X) ==
    IF i > NRows(X) THEN Y
    ELSE LET s == sum_axis0(gs_proj(X[i], Y))
         IN  gs_for_i(Append(Y, [k \in 1..Len(X[i]) |-> RSub(X[i][k], s[k])]), i + 1, X)

\* Y = np.diag(1/np.linalg.norm(Y, axis=1)).dot(Y)
gs_normalize(Y) ==
    LET nrm == linalg_norm_axis1(Y)
    IN  rmatmul(np_diag([m \in 1..NRows(Y) |-> RInv(nrm[m])]), Y)

gram_schmidt(X, row_vecs, norm) ==
    LET X1 == IF ~ row_vecs THEN Transpose(X) ELSE X
        Y1 == gs_for_i(<<X1[1]>>, 2, X1)
        Y2 == IF norm THEN gs_normalize(Y1) ELSE Y1
    IN  IF row_vecs THEN Y2 ELSE Transpose(Y2)

\* ---- inputs of gram_schmidt: integer matrices with independent rows
\* determinant of a square integer matrix, by expansion along the first row
RECURSIVE IntDet(_)
IntDet(A) ==
    IF NRows(A) = 1 THEN A[1][1]
    ELSE LET n == NRows(A)
             Minor(c) == [i \in 1..(n - 1) |-> [j \in 1..(n - 1) |->
                             A[i + 1][IF j < c THEN j ELSE j + 1]]]
             Term(c) == (IF c % 2 = 1 THEN 1 ELSE 0 - 1) * A[1][c] * IntDet(Minor(c))
             Acc[c \in 0..n] == IF c = 0 THEN 0 ELSE Acc[c - 1] + Term(c)
         IN  Acc[n]

\* the rows of A are linearly independent iff their Gram determinant is not 0
IndependentRows(A) ==
    IntDet([i \in 1..NRows(A) |-> [j \in 1..NRows(A) |->
        LET prod == [k \in 1..NCols(A) |-> A[i][k] * A[j][k]]
            Acc[k \in 0..NCols(A)] == IF k = 0 THEN 0 ELSE Acc[k - 1] + prod[k]
        IN  Acc[NCols(A)]]]) # 0

\* gram_schmidt takes up to N + 1 vectors: from three on, a vector has more
\* than one earlier vector to be projected on
MaxVectors == N + 1

\* r vectors of length c as rows: ones on the diagonal, or on and below it
\* ([[1,0],[1,1]] when r = c = 2), with one entry changed by -1, 1 or 2
VectorRows(r, c) ==
    LET Diagonal == [i \in 1..r |-> [j \in 1..c |-> IF i = j THEN 1 ELSE 0]]
        Lower == [i \in 1..r |-> [j \in 1..c |-> IF j <= i THEN 1 ELSE 0]]
        Changed(A, a, b, s) == [A EXCEPT ![a][b] = A[a][b] + s]
    IN  { A \in {Diagonal, Lower}
                \cup { Changed(B, a, b, s) : B \in {Diagonal, Lower},
                                             a \in 1..r, b \in 1..c, s \in {0 - 1, 1, 2} } :
            IndependentRows(A) }

ToReal(A) == [i \in 1..NRows(A) |-> [j \in 1..NCols(A) |-> RInt(A[i][j])]]

(***************************************************************************)
(* The kernel calls: Init is before the call, each action one call.        *)
(***************************************************************************)
ExpmUnused ==
    /\ pc = "unused"
    /\ primitive = "none"
    /\ matrix = <<>>
    /\ control_matrix_list = <<>>
    /\ exp_matrix = <<>>
    /\ matrix_size = 0
    /\ argnum = 0
    /\ rule = "none"
    /\ dfinal_dexpm = <<>>
    /\ dfinal_dmatrix = <<>>
    /\ dexpm_dcontrols = <<>>
    /\ ret = NoValue
    /\ ncalls = 0

KernelInit == KernelIdle /\ ExpmUnused

Apply_commutator(a, b) ==
    /\ kfun = "idle"
    /\ kfun' = "commutator"
    /\ kargs' = <<a, b>>
    /\ kout' = commutator(a, b)
    /\ kraised' = "none"
    /\ UNCHANGED expm_vars

Apply_project(x, basis) ==
    /\ kfun = "idle"
    /\ kfun' = "project"
    /\ kargs' = <<x, basis>>
    /\ kout' = project(x, basis)
    /\ kraised' = "none"
    /\ UNCHANGED expm_vars

\* the vectors V are the rows of X (row_vecs) or its columns
Apply_gram_schmidt(V, row_vecs, norm) ==
    LET X == ToReal(IF row_vecs THEN V ELSE Transpose(V))
    IN  /\ kfun = "idle"
        /\ kfun' = "gram_schmidt"
        /\ kargs' = <<X, row_vecs, norm>>
        /\ kout' = gram_schmidt(X, row_vecs, norm)
        /\ kraised' = "none"
        /\ UNCHANGED expm_vars

Apply_matrix_to_column_vector_list(m) ==
    /\ kfun = "idle"
    /\ kfun' = "matrix_to_column_vector_list"
    /\ kargs' = <<m>>
    /\ kout' = matrix_to_column_vector_list(m).value
    /\ kraised' = matrix_to_column_vector_list(m).raised
    /\ UNCHANGED expm_vars

\* the list just returned is handed back
Call_column_vector_list_to_matrix ==
    /\ kfun = "matrix_to_column_vector_list"
    /\ kraised = "none"
    /\ kfun' = "column_vector_list_to_matrix"
    /\ kargs' = <<kout>>
    /\ kout' = column_vector_list_to_matrix(kout).value
    /\ kraised' = column_vector_list_to_matrix(kout).raised
    /\ UNCHANGED expm_vars

Call_commutator ==
    /\ kfun = "idle"
    /\ \E a \in SquareMatrices(N), b \in SquareMatrices(N) : Apply_commutator(a, b)

Call_project ==
    /\ kfun = "idle"
    /\ \E x \in Vectors(N), basis \in Bases(N) : Apply_project(x, basis)

Call_gram_schmidt ==
    /\ kfun = "idle"
    /\ \E r \in 1..MaxVectors : \E c \in r..MaxVectors : \E V \in VectorRows(r, c) :
           \E row_vecs \in BOOLEAN, norm \in BOOLEAN :
               Apply_gram_schmidt(V, row_vecs, norm)

Call_matrix_to_column_vector_list ==
    /\ kfun = "idle"
    /\ \E r \in 0..N, c \in 0..N : \E m \in ShapedMatrices(r, c) :
           Apply_matrix_to_column_vector_list(m)

KernelNext ==
    \/ Call_commutator
    \/ Call_project
    \/ Call_gram_schmidt
    \/ Call_matrix_to_column_vector_list
    \/ Call_column_vector_list_to_matrix

SpecKernel == KernelInit /\ [][KernelNext]_vars

(***************************************************************************)
(* Claims about convenience.py, checked under SpecKernel.                  *)
(***************************************************************************)
\* the Hermitian inner product <u, v> = sum of u[k] * conj(v[k])
HermitianDot(u, v) == Sigma([k \in 1..Len(u) |-> CMul(u[k], CConj(v[k]))])

Orthonormal(basis) ==
    \A i \in 1..NRows(basis) : \A j \in 1..NRows(basis) :
        HermitianDot(basis[i], basis[j]) = IF i = j THEN COne ELSE CZero

\* x is in the span of an orthonormal basis iff it is the sum of its
\* components <x, b_i> b_i
InSpan(x, basis) ==
    \A k \in 1..Len(x) :
        x[k] = Sigma([i \in 1..NRows(basis) |->
                         CMul(HermitianDot(x, basis[i]), basis[i][k])])

\* C6: for a basis with orthonormal rows (real or complex, under the
\* Hermitian inner product) and x in their span, project(x, basis) is x.
C6_ProjectReconstructs ==
    (kfun = "project" /\ Orthonormal(kargs[2]) /\ InSpan(kargs[1], kargs[2])) =>
        kout = kargs[1]

\* what C7 says of one step, for the matrices with at least MinRows rows
\* and one column: matrix_to_column_vector_list(M) returns the c columns of
\* M in order, each an r x 1 array, and column_vector_list_to_matrix of
\* that list returns M, shape and entries
ColumnRoundTripStep(MinRows) ==
    /\ (/\ kfun' = "matrix_to_column_vector_list"
        /\ kargs'[1].shape[1] >= MinRows
        /\ kargs'[1].shape[2] >= 1) =>
           /\ kraised' = "none"
           /\ Len(kout') = kargs'[1].shape[2]
           /\ \A i \in 1..kargs'[1].shape[2] :
                  /\ NRows(kout'[i]) = kargs'[1].shape[1]
                  /\ \A k \in 1..kargs'[1].shape[1] :
                         kout'[i][k] = <<kargs'[1].data[k][i]>>
    /\ (/\ kfun = "matrix_to_column_vector_list"
        /\ kfun' = "column_vector_list_to_matrix"
        /\ kargs[1].shape[1] >= MinRows) =>
           /\ kraised' = "none"
           /\ kout' = kargs[1]

\* C7 as stated: for any r x c matrix M with c >= 1 (r is not constrained)
\* matrix_to_column_vector_list(M) is the sequence of the c columns of M,
\* in order, each an r x 1 array, and column_vector_list_to_matrix of that
\* sequence is M.
C7_ColumnRoundTrip_AnyRows == [][ColumnRoundTripStep(0)]_vars

\* C7 amended: the same for any r x c matrix M with r >= 1 and c >= 1.
C7_ColumnRoundTrip == [][ColumnRoundTripStep(1)]_vars

C7_Witness ==
    /\ kfun = "column_vector_list_to_matrix"
    /\ kraised = "none"
    /\ Len(kargs[1]) >= 2
    /\ kout.shape[1] # kout.shape[2]
    /\ kout.data = RampRect(kout.shape[1], kout.shape[2])

\* a matrix of no rows and one column or more makes the call raise
C7_NoRowsRaises ==
    /\ kfun = "matrix_to_column_vector_list"
    /\ kargs[1].shape[1] = 0
    /\ kargs[1].shape[2] >= 1
    /\ kraised = "ValueError"

\* the vectors of a gram_schmidt argument or result: its rows, or its columns
VectorsOf(A, row_vecs) == IF row_vecs THEN A ELSE Transpose(A)

RVecScale(s, v) == [k \in 1..Len(v) |-> RMul(s, v[k])]

RECURSIVE RVecSum(_, _)
RVecSum(vs, len) ==
    IF vs = <<>> THEN [k \in 1..len |-> RZero]
    ELSE LET rest == RVecSum(Tail(vs), len)
         IN  [k \in 1..len |-> RAdd(Head(vs)[k], rest[k])]

\* u = t*w for some t > 0
PositiveMultiple(u, w) ==
    /\ \A k \in 1..Len(u) : \A l \in 1..Len(u) : RMul(u[k], w[l]) = RMul(u[l], w[k])
    /\ rdot(u, w).p > 0

\* C8: for a real X with linearly independent rows, the rows of
\* gram_schmidt(X, row_vecs=True, norm=True) are as many as those of X,
\* pairwise orthogonal and of unit norm; row 0 is a positive multiple of
\* X[0], and row i a positive multiple of X[i] minus its projections on the
\* rows 0..i-1 produced before; with row_vecs=False the same of the columns.
C8_GramSchmidtOrthonormal ==
    (kfun = "gram_schmidt" /\ kargs[3]) =>
        LET X == VectorsOf(kargs[1], kargs[2])
            Q == VectorsOf(kout, kargs[2])
            Residual(i) ==
                LET projections == [m \in 1..(i - 1) |-> RVecScale(rdot(X[i], Q[m]), Q[m])]
                    total == RVecSum(projections, Len(X[i]))
                IN  [k \in 1..Len(X[i]) |-> RSub(X[i][k], total[k])]
        IN  /\ NRows(Q) = NRows(X)
            /\ \A i \in 1..NRows(Q) : Len(Q[i]) = Len(X[i])
            /\ \A i \in 1..NRows(Q) : \A j \in 1..NRows(Q) :
                   rdot(Q[i], Q[j]) = IF i = j THEN ROne ELSE RZero
            /\ \A i \in 1..NRows(Q) : PositiveMultiple(Q[i], Residual(i))

C8_Witness ==
    /\ kfun = "gram_schmidt"
    /\ kargs[3]
    /\ NRows(VectorsOf(kargs[1], kargs[2])) >= 3
    /\ \E i \in 1..NRows(kout) : \E k \in 1..NCols(kout) : kout[i][k].d > 1
    /\ \A m \in 1..2 : rdot(VectorsOf(kargs[1], kargs[2])[3],
                            VectorsOf(kargs[1], kargs[2])[m]) # RZero

\* the spec's own scenario: X = [[1,0],[1,1]] gives [[1,0],[0,1]]
C8_ScenarioWitness ==
    /\ kfun = "gram_schmidt"
    /\ kargs = <<ToReal(<<<<1, 0>>, <<1, 1>>>>), TRUE, TRUE>>
    /\ kout = ToReal(<<<<1, 0>>, <<0, 1>>>>)

\* C9: commutator(A, B) is A.B - B.A, hence the negation of
\* commutator(B, A), and zero when A = B.
C9_CommutatorAntisymmetric ==
    kfun = "commutator" =>
        LET A == kargs[1]
            B == kargs[2]
        IN  /\ \A i \in 1..NRows(A) : \A j \in 1..NRows(A) :
                   kout[i][j] = Sigma([l \in 1..NRows(A) |->
                       CSub(CMul(A[i][l], B[l][j]), CMul(B[i][l], A[l][j]))])
            /\ kout = MatNeg(commutator(B, A))
            /\ (A = B => IsZeroMatrix(kout))

C9_Witness ==
    /\ kfun = "commutator"
    /\ kargs[1] = ControlX(N)
    /\ kargs[2] = ControlY(N)
    /\ ~ IsZeroMatrix(kout)

====
